---- MODULE Spec2Model ----
(***************************************************************************)
(* Model of the Quotesn service worker (src/sw.js, lines 1-226): the       *)
(* versioned cache stores, the install / activate lifecycle, the four      *)
(* fetch strategies and the entry trimmer.                                 *)
(*                                                                         *)
(* Every `await` of the source on the network or on the cache storage is   *)
(* a suspension point, so it ends an action; `caches.open` is merged with  *)
(* the storage operation that follows it (it only creates the store when   *)
(* it is absent).  A promise that the source does not await (cache.put in  *)
(* three strategies, trimCache) is a detached task with its own actions.   *)
(*                                                                         *)
(* The file also holds an earlier worker (lines 228-292); here it appears  *)
(* only as the 'quotesn-v1' store it may have left behind.                 *)
(***************************************************************************)
EXTENDS Integers, Sequences, FiniteSets, TLC

(* ------------------------------ bounds -------------------------------- *)
\* Number of fetch events the worker handles in one run.
MaxReqs == 2
\* The cap handed to cacheFirstWithLimit / trimCache as maxItems.  The source
\* passes IMAGE_CACHE_MAX_ITEMS (60); the model runs the same code with a
\* small cap.
MaxItems == 1
\* Number of concurrent image fetch events in SpecImages.
MaxImgReqs == 3
\* The cap and the number of image fetch events in SpecSequential.
SeqMaxItems == 2
MaxSeqReqs == 4
\* Number of fetch events in SpecRouter.
MaxRouterReqs == 1
\* Number of concurrent image fetch events in SpecBurst.
MaxBurstReqs == 2
\* Number of fetch events in SpecRefresh.
MaxSwrReqs == 2

(* --------------------------- configuration ---------------------------- *)
\* Store names are the '-'-separated pieces of the source's strings, so that
\* startsWith('quotesn-') is computed on the name and not assumed.
VERSION == "v1.0.0-2025-09-10"
OLD_VERSION == "v0.9.0"
RUNTIME_CACHE == <<"quotesn", "runtime", VERSION>>
PRECACHE == <<"quotesn", "precache", VERSION>>
IMAGE_CACHE == RUNTIME_CACHE \o <<"img">>

CORE_ROUTES == <<"/", "/index.html", "/about/", "/blog/", "/quizzes/",
                 "/contact/", "/contact-success.html", "/privacy/", "/terms/",
                 "/manifest.webmanifest", "/images/favicon.ico",
                 "/images/app-icon-192.png", "/images/app-icon-512.png",
                 "/images/android-chrome-144x144.png",
                 "/images/android-chrome-384x384.png">>

(* ------------------------------ responses ----------------------------- *)
Resp(t, s, c, b) == [type |-> t, status |-> s, ctype |-> c, body |-> b]
\* What `cache.match` yields on a miss, and the JS value null.
undefined == Resp("undefined", 0, "", "")
null == Resp("null", 0, "", "")
\* new Response(OFFLINE_HTML, {headers: {'Content-Type': ...}, status: 200})
OFFLINE_RESPONSE == Resp("default", 200, "text/html; charset=utf-8", "OFFLINE_HTML")
\* new Response('', { status: 504 })
Response504 == Resp("default", 504, "", "")
\* fetch(fallbackImg): the 1x1 PNG of the data: URL
fallbackImg == Resp("basic", 200, "image/png", "png1x1")

\* What a fetch that resolves can resolve to: the current content of a
\* same-origin page or asset, a same-origin error status, an opaque
\* cross-origin response.
OkResponse == Resp("basic", 200, "net", "b1")
ErrorResponse == Resp("basic", 404, "net", "notfound")
OpaqueResponse == Resp("opaque", 0, "", "opaque")

truthy(r) == r.type \notin {"undefined", "null"}
IsResponse(r) == truthy(r)
ok(r) == r.status >= 200 /\ r.status <= 299
\* response && (response.ok || response.type === 'opaque')
usable(r) == truthy(r) /\ (ok(r) \/ r.type = "opaque")

(* --------------------------- cache storage ---------------------------- *)
\* CacheStorage: the stores in creation order (the order of caches.keys()),
\* each with its entries in insertion order (the order of cache.keys()).
VARIABLE caches

Names(cs) == {cs[k].name : k \in 1..Len(cs)}
has(cs, name) == name \in Names(cs)
IndexOf(cs, name) == CHOOSE k \in 1..Len(cs) : cs[k].name = name
entriesOf(cs, name) == IF has(cs, name) THEN cs[IndexOf(cs, name)].entries ELSE <<>>
keysOf(es) == [k \in 1..Len(es) |-> es[k].key]
KeySet(es) == {es[k].key : k \in 1..Len(es)}

\* caches.open(name): creates the store at the end of the list if absent.
open(cs, name) == IF has(cs, name) THEN cs ELSE Append(cs, [name |-> name, entries |-> <<>>])

\* cache.match(request) on one list of entries.
matchIn(es, key) ==
    IF key \in KeySet(es)
    THEN es[CHOOSE k \in 1..Len(es) : es[k].key = key].resp
    ELSE undefined

\* A faulty variant of caches.match: cache.match on the runtime store alone.
matchRuntimeOnly(cs, key) == matchIn(entriesOf(cs, RUNTIME_CACHE), key)

\* caches.match(request): the first store, in creation order, that holds it.
RECURSIVE matchAll(_, _)
matchAll(cs, key) ==
    IF cs = <<>> THEN undefined
    ELSE IF key \in KeySet(Head(cs).entries) THEN matchIn(Head(cs).entries, key)
    ELSE matchAll(Tail(cs), key)

without(es, key) == SelectSeq(es, LAMBDA e : e.key # key)

\* cache.put(request, response): an entry of the same key is removed and the
\* new one is appended.
putIn(es, key, r) == Append(without(es, key), [key |-> key, resp |-> r])

withEntries(cs, name, es) ==
    [k \in 1..Len(cs) |-> IF cs[k].name = name THEN [cs[k] EXCEPT !.entries = es] ELSE cs[k]]

\* A faulty variant of put: an entry already stored under the key is kept.
putKeepExisting(cs, name, key, r) ==
    IF key \in KeySet(entriesOf(cs, name)) THEN open(cs, name)
    ELSE withEntries(open(cs, name), name, Append(entriesOf(cs, name), [key |-> key, resp |-> r]))

\* (await caches.open(name)).put(key, r)
put(cs, name, key, r) == withEntries(open(cs, name), name, putIn(entriesOf(cs, name), key, r))

\* A faulty variant of cache.delete: an absent key takes the oldest entry.
deleteOldestIfAbsent(cs, name, key) ==
    IF key \in KeySet(entriesOf(cs, name))
    THEN withEntries(cs, name, without(entriesOf(cs, name), key))
    ELSE withEntries(cs, name, IF entriesOf(cs, name) = <<>> THEN <<>> ELSE Tail(entriesOf(cs, name)))

\* cache.delete(request): a no-op when the entry is absent.
delete(cs, name, key) == withEntries(cs, name, without(entriesOf(cs, name), key))

\* caches.delete(name)
deleteStore(cs, name) == SelectSeq(cs, LAMBDA c : c.name # name)

(* ------------------------------ lifecycle ----------------------------- *)
\* phase    parsed -> installing -> installed -> activating -> active
\* names    the activate handler's `names` (await caches.keys())
\* sweep    the stores whose caches.delete is still pending
\* claimed  clients.claim() was called
VARIABLES phase, names, sweep, claimed

\* name.startsWith('quotesn-')
startsWithQuotesn(name) == Len(name) >= 2 /\ name[1] = "quotesn"

\* A faulty variant of the filter: only the runtime stores of other versions
\* (name.startsWith('quotesn-runtime-')).
isStaleRuntimeOnly(name) ==
    /\ Len(name) >= 3 /\ name[1] = "quotesn" /\ name[2] = "runtime"
    /\ name # PRECACHE /\ name # RUNTIME_CACHE

\* The filter of the activate handler.
isStale(name) == startsWithQuotesn(name) /\ name # PRECACHE /\ name # RUNTIME_CACHE

\* Stores that may exist when this version of the worker is installed: left
\* by an older deployment (the 'quotesn-v1' store of the earlier worker, the
\* runtime store of an older VERSION), by an earlier activation of this
\* VERSION, or by another script of the origin.
LEGACY_CACHE == <<"quotesn", "v1">>
OLD_RUNTIME_CACHE == <<"quotesn", "runtime", OLD_VERSION>>
FOREIGN_CACHE == <<"other", "cache">>
oldEntry(key) == [key |-> key, resp |-> Resp("basic", 200, "net", "b0")]
ExistingStores ==
    << [name |-> LEGACY_CACHE, entries |-> <<oldEntry("/")>>],
       [name |-> OLD_RUNTIME_CACHE, entries |-> <<oldEntry("/")>>],
       [name |-> FOREIGN_CACHE, entries |-> <<oldEntry("/")>>],
       [name |-> PRECACHE, entries |-> <<oldEntry("/")>>],
       [name |-> RUNTIME_CACHE, entries |-> <<oldEntry("/data.json")>>],
       [name |-> IMAGE_CACHE, entries |-> <<oldEntry("https://cdn.example/a.jpg")>>] >>

RECURSIVE pick(_, _, _)
pick(seq, S, k) ==
    IF k > Len(seq) THEN <<>>
    ELSE (IF k \in S THEN <<seq[k]>> ELSE <<>>) \o pick(seq, S, k + 1)

RECURSIVE putAll(_, _, _)
putAll(es, urls, r) ==
    IF urls = <<>> THEN es ELSE putAll(putIn(es, Head(urls), r), Tail(urls), r)

(* ------------------------------ requests ------------------------------ *)
Req(m, mo, acc, org, dest, ext, u) ==
    [method |-> m, mode |-> mo, accept |-> acc, origin |-> org,
     destination |-> dest, ext |-> ext, url |-> u]
SELF_ORIGIN == "https://quotesn.example"
NavHome == Req("GET", "navigate", {"text/html"}, SELF_ORIGIN, "document", "", "/")
Asset == Req("GET", "cors", {"*/*"}, SELF_ORIGIN, "", "json", "/data.json")
Api == Req("GET", "cors", {"*/*"}, "https://api.example", "", "", "https://api.example/quote")
Submit == Req("POST", "cors", {"*/*"}, SELF_ORIGIN, "", "", "/submit")
Image(u) == Req("GET", "no-cors", {"image/*"}, "https://cdn.example", "image", "jpg", u)
ImageUrls == {"https://cdn.example/a.jpg", "https://cdn.example/b.jpg", "https://cdn.example/c.jpg"}
Images == {Image(u) : u \in ImageUrls}
Logo == Req("GET", "no-cors", {"image/*"}, SELF_ORIGIN, "image", "jpg", "/images/logo.jpg")
SwrRequests == {Asset, Logo}
Requests == {NavHome, Asset, Api, Submit,
             Image("https://cdn.example/a.jpg"), Image("https://cdn.example/b.jpg")}

\* Every combination of the properties of event.request that the fetch
\* listener reads: method, mode, the accept header, the origin and the
\* extension of the URL, destination.
THIRD_PARTY == "https://cdn.example"
urlFor(org, ext) ==
    IF org = SELF_ORIGIN
    THEN (IF ext = "jpg" THEN "/images/logo.jpg" ELSE "/")
    ELSE (IF ext = "jpg" THEN "https://cdn.example/a.jpg" ELSE "https://cdn.example/b")
RouterRequests ==
    {Req(m, mo, acc, org, dest, ext, urlFor(org, ext)) :
        m \in {"GET", "POST"}, mo \in {"navigate", "cors"},
        acc \in {{"text/html"}, {"*/*"}}, org \in {SELF_ORIGIN, THIRD_PARTY},
        dest \in {"", "image"}, ext \in {"", "jpg"}}

\* /\.(png|jpg|jpeg|webp|avif|gif)(\?.*)?$/i.test(url.pathname)
isRasterPath(q) == q.ext \in {"png", "jpg", "jpeg", "webp", "avif", "gif"}

\* A faulty variant of the classification: the same-origin test before the
\* navigation test.
routeSameOriginFirst(q) ==
    IF q.method # "GET" THEN "none"
    ELSE IF q.origin = SELF_ORIGIN THEN "staleWhileRevalidate"
    ELSE IF q.mode = "navigate" \/ "text/html" \in q.accept THEN "handleHTMLNavigation"
    ELSE IF q.destination = "image" \/ isRasterPath(q) THEN "cacheFirstWithLimit"
    ELSE "networkFallingBackToCache"

\* The fetch listener's classification, first match first.
route(q) ==
    IF q.method # "GET" THEN "none"
    ELSE IF q.mode = "navigate" \/ "text/html" \in q.accept THEN "handleHTMLNavigation"
    ELSE IF q.origin = SELF_ORIGIN THEN "staleWhileRevalidate"
    ELSE IF q.destination = "image" \/ isRasterPath(q) THEN "cacheFirstWithLimit"
    ELSE "networkFallingBackToCache"

\* What fetch can fulfil with for a request: a same-origin or CORS request
\* gets a readable response (ok or an error status); an image strategy request
\* is cross-origin and fetched with {mode: 'no-cors'}, so its response is
\* opaque.
answers(q) ==
    IF route(q) = "cacheFirstWithLimit" THEN {OpaqueResponse} ELSE {OkResponse, ErrorResponse}

(* ------------------------------- tasks -------------------------------- *)
\* reqs[i]: the i-th fetch event and its strategy call.
\*   pc       where the strategy's async function is suspended
\*   cached   what the strategy's cache lookup returned
\*   net      state of the strategy's fetch(request)
\*   network  what that fetch resolved to
\*   resp     what respondWith's promise settled to (undefined: not yet)
\* puts[i]: the cache.put the strategy issued without awaiting it.
\* trims[i]: the trimCache call the strategy issued without awaiting it.
VARIABLES reqs, puts, trims, inserted

vars == <<caches, phase, names, sweep, claimed, reqs, puts, trims, inserted>>

Slots == 1..Len(reqs)
NewReq(q, pc) == [pc |-> pc, request |-> q, strategy |-> route(q), cached |-> undefined,
                  net |-> "none", network |-> undefined, resp |-> undefined]
NoPut == [st |-> "none", resp |-> undefined]
NoTrim == [pc |-> "none", maxItems |-> 0, keys |-> <<>>, deletions |-> 0, i |-> 0]

\* a || b
orElse(a, b) == IF truthy(a) THEN a ELSE b

(* ------------------------------ Install ------------------------------- *)
\* The install event: waitUntil(open(PRECACHE).then(addAll).catch(...)).
InstallEvent ==
    /\ phase = "parsed"
    /\ phase' = "installing"
    /\ UNCHANGED <<caches, names, sweep, claimed, reqs, puts, trims, inserted>>

\* The worker's state once the promise given to event.waitUntil has settled:
\* a rejection makes the installation fail and the worker redundant.
afterWaitUntil(settled) == IF settled = "fulfilled" THEN "installed" ELSE "redundant"

\* A faulty variant of the chain: without the .catch.
installNoCatch(settled) == settled

\* .catch(() => {}): the chain fulfils whatever open/addAll settled to.
installCatch(settled) == "fulfilled"

\* cache.addAll(CORE_ROUTES) fulfils: every route was fetched with an ok
\* response and all of them are stored.
InstallAddAllOk ==
    /\ phase = "installing"
    /\ caches' = withEntries(open(caches, PRECACHE), PRECACHE,
                             putAll(entriesOf(caches, PRECACHE), CORE_ROUTES, OkResponse))
    /\ phase' = afterWaitUntil(installCatch("fulfilled"))
    /\ UNCHANGED <<names, sweep, claimed, reqs, puts, trims, inserted>>

\* cache.addAll rejects (nothing is stored); .catch(() => {}) fulfils.
InstallAddAllFail ==
    /\ phase = "installing"
    /\ caches' = open(caches, PRECACHE)
    /\ phase' = afterWaitUntil(installCatch("rejected"))
    /\ UNCHANGED <<names, sweep, claimed, reqs, puts, trims, inserted>>

(* ------------------------------ Activate ------------------------------ *)
\* names = await caches.keys(); the filter; one caches.delete per name.
ActivateEvent ==
    /\ phase = "installed"
    /\ phase' = "activating"
    /\ names' = [k \in 1..Len(caches) |-> caches[k].name]
    /\ sweep' = {n \in Names(caches) : isStale(n)}
    /\ UNCHANGED <<caches, claimed, reqs, puts, trims, inserted>>

\* One of the caches.delete(name) of Promise.all takes effect.
ActivateDelete(n) ==
    /\ phase = "activating"
    /\ n \in sweep
    /\ caches' = deleteStore(caches, n)
    /\ sweep' = sweep \ {n}
    /\ UNCHANGED <<phase, names, claimed, reqs, puts, trims, inserted>>

\* A faulty variant of the sequencing: Promise.all(...) not awaited.
sweepNotAwaited(pending) == TRUE

\* await Promise.all(...): fulfilled once no caches.delete is pending.
sweepAwaited(pending) == pending = {}

\* Promise.all has fulfilled; await self.clients.claim(); the handler's
\* function returns (its local `names` is gone).
ActivateClaim ==
    /\ phase = "activating"
    /\ sweepAwaited(sweep)
    /\ claimed' = TRUE
    /\ phase' = "active"
    /\ names' = <<>>
    /\ UNCHANGED <<caches, sweep, reqs, puts, trims, inserted>>

(* ------------------------------- Fetch -------------------------------- *)
firstPc(strategy) ==
    CASE strategy = "handleHTMLNavigation" -> "nav_fetch"
      [] strategy = "staleWhileRevalidate" -> "swr_match"
      [] strategy = "cacheFirstWithLimit" -> "cfl_match"
      [] strategy = "networkFallingBackToCache" -> "nfc_fetch"
      [] OTHER -> "ignored"

\* The fetch listener: classifies the request and calls respondWith with the
\* strategy's promise; the strategy runs up to its first await.
FetchEvent(q) ==
    /\ phase = "active"
    /\ reqs' = Append(reqs, NewReq(q, firstPc(route(q))))
    /\ puts' = Append(puts, NoPut)
    /\ trims' = Append(trims, NoTrim)
    /\ UNCHANGED <<caches, phase, names, sweep, claimed, inserted>>

\* The strategy of request i returns r.
return(i, r) == [reqs EXCEPT ![i].resp = r, ![i].pc = "done"]

(* ------------------------ handleHTMLNavigation ------------------------ *)
\* fetch(request) fulfils with r: open the runtime store, issue the put
\* without awaiting it, return the network response.
NavFetchOk(i, r) ==
    /\ reqs[i].pc = "nav_fetch"
    /\ caches' = open(caches, RUNTIME_CACHE)
    /\ puts' = [puts EXCEPT ![i] = [st |-> "pending", resp |-> r]]
    /\ reqs' = [return(i, r) EXCEPT ![i].net = "ok", ![i].network = r]
    /\ UNCHANGED <<phase, names, sweep, claimed, trims, inserted>>

\* What the catch branch returns for a lookup result.
navFallback(cached) == IF truthy(cached) THEN cached ELSE OFFLINE_RESPONSE

\* fetch(request) rejects: caches.match(request), else the offline page.
NavFetchFail(i) ==
    /\ reqs[i].pc = "nav_fetch"
    /\ LET cached == matchAll(caches, reqs[i].request.url)
       IN reqs' = [return(i, navFallback(cached)) EXCEPT ![i].net = "fail", ![i].cached = cached]
    /\ UNCHANGED <<caches, phase, names, sweep, claimed, puts, trims, inserted>>

(* ------------------------ staleWhileRevalidate ------------------------ *)
\* The promise object `fetchPromise`: an object, truthy whatever it will
\* settle to.
fetchPromise == Resp("promise", 0, "", "")

\* A faulty variant of the return: fetchPromise || cached.
swrReturnNetworkFirst(cached) == orElse(fetchPromise, cached)

\* return cached || fetchPromise || new Response('', { status: 504 })
swrReturn(cached) == orElse(cached, orElse(fetchPromise, Response504))

\* What fetchPromise settles to when fetch rejects: .catch(() => null)
swrCatch == null

\* cache.match resolves; fetch(request) is issued; the function returns the
\* cached response, or the promise whose value respondWith then waits for.
SwrMatch(i) ==
    /\ reqs[i].pc = "swr_match"
    /\ caches' = open(caches, RUNTIME_CACHE)
    /\ LET cached == matchIn(entriesOf(caches, RUNTIME_CACHE), reqs[i].request.url)
           ret == swrReturn(cached)
       IN reqs' = [reqs EXCEPT ![i].cached = cached,
                               ![i].net = "pending",
                               ![i].pc = IF ret = fetchPromise THEN "swr_await" ELSE "done",
                               ![i].resp = IF ret = fetchPromise THEN undefined ELSE ret]
    /\ UNCHANGED <<phase, names, sweep, claimed, puts, trims, inserted>>

\* The value fetchPromise settled to reaches a caller that waits for it.
settle(i, v) ==
    IF reqs[i].pc = "swr_await" THEN [reqs EXCEPT ![i].resp = v, ![i].pc = "done"] ELSE reqs

\* fetch fulfils with r: a usable response is put (not awaited) and r is the
\* value of fetchPromise.
SwrFetchOk(i, r) ==
    /\ reqs[i].strategy = "staleWhileRevalidate"
    /\ reqs[i].net = "pending"
    /\ puts' = IF usable(r) THEN [puts EXCEPT ![i] = [st |-> "pending", resp |-> r]] ELSE puts
    /\ reqs' = [settle(i, r) EXCEPT ![i].net = "ok", ![i].network = r]
    /\ UNCHANGED <<caches, phase, names, sweep, claimed, trims, inserted>>

\* fetch rejects: fetchPromise settles to the value of the catch handler.
SwrFetchFail(i) ==
    /\ reqs[i].strategy = "staleWhileRevalidate"
    /\ reqs[i].net = "pending"
    /\ reqs' = [settle(i, swrCatch) EXCEPT ![i].net = "fail"]
    /\ UNCHANGED <<caches, phase, names, sweep, claimed, puts, trims, inserted>>

(* ---------------------- networkFallingBackToCache --------------------- *)
\* fetch fulfils with r: a usable response is put (not awaited); return r.
NfcFetchOk(i, r) ==
    /\ reqs[i].pc = "nfc_fetch"
    /\ caches' = IF usable(r) THEN open(caches, RUNTIME_CACHE) ELSE caches
    /\ puts' = IF usable(r) THEN [puts EXCEPT ![i] = [st |-> "pending", resp |-> r]] ELSE puts
    /\ reqs' = [return(i, r) EXCEPT ![i].net = "ok", ![i].network = r]
    /\ UNCHANGED <<phase, names, sweep, claimed, trims, inserted>>

\* fetch rejects: return cached || new Response('', { status: 504 })
NfcFetchFail(i) ==
    /\ reqs[i].pc = "nfc_fetch"
    /\ LET cached == matchAll(caches, reqs[i].request.url)
       IN reqs' = [return(i, orElse(cached, Response504)) EXCEPT ![i].net = "fail", ![i].cached = cached]
    /\ UNCHANGED <<caches, phase, names, sweep, claimed, puts, trims, inserted>>

(* -------------------- the put that is not awaited ---------------------- *)
\* A faulty variant of the put: into the precache store.
putTargetPrecache == PRECACHE

\* Where the three strategies above put: the runtime store.
putTarget == RUNTIME_CACHE

\* cache.put(request, response.clone()) takes effect.
PutCommit(i) ==
    /\ puts[i].st = "pending"
    /\ caches' = put(caches, putTarget, reqs[i].request.url, puts[i].resp)
    /\ puts' = [puts EXCEPT ![i].st = "done"]
    /\ UNCHANGED <<phase, names, sweep, claimed, reqs, trims, inserted>>

\* cache.put rejects (storage quota); nobody handles the rejection.
PutFail(i) ==
    /\ puts[i].st = "pending"
    /\ puts' = [puts EXCEPT ![i].st = "failed"]
    /\ UNCHANGED <<caches, phase, names, sweep, claimed, reqs, trims, inserted>>

\* The promise of the put has no rejection handler at any of its three call
\* sites (no await, no .catch, and it is not returned into the chain that
\* ends in .catch(() => null)): its rejection is reported to the worker as
\* an unhandled rejection.
unhandled(i) == puts[i].st = "failed"

(* ------------------------- cacheFirstWithLimit ------------------------ *)
\* A faulty variant of the test: the entry is never trusted.
cflHitNever(cached) == FALSE

\* if (cached)
cflHit(cached) == truthy(cached)

\* cache.match resolves: a hit is returned, a miss goes to the network.
CflMatch(i) ==
    /\ reqs[i].pc = "cfl_match"
    /\ caches' = open(caches, IMAGE_CACHE)
    /\ LET cached == matchIn(entriesOf(caches, IMAGE_CACHE), reqs[i].request.url)
       IN reqs' = IF cflHit(cached)
                  THEN [return(i, cached) EXCEPT ![i].cached = cached]
                  ELSE [reqs EXCEPT ![i].pc = "cfl_fetch", ![i].net = "pending"]
    /\ UNCHANGED <<phase, names, sweep, claimed, puts, trims, inserted>>

\* fetch(request, {mode: 'no-cors'}) fulfils with r: a usable response is put
\* and the put awaited; any other is returned as it is.
CflFetchOk(i, r) ==
    /\ reqs[i].pc = "cfl_fetch"
    /\ reqs' = IF usable(r)
               THEN [reqs EXCEPT ![i].pc = "cfl_put", ![i].net = "ok", ![i].network = r]
               ELSE [return(i, r) EXCEPT ![i].net = "ok", ![i].network = r]
    /\ UNCHANGED <<caches, phase, names, sweep, claimed, puts, trims, inserted>>

\* fetch rejects: return fetch(fallbackImg).
CflFetchFail(i) ==
    /\ reqs[i].pc = "cfl_fetch"
    /\ reqs' = [return(i, fallbackImg) EXCEPT ![i].net = "fail"]
    /\ UNCHANGED <<caches, phase, names, sweep, claimed, puts, trims, inserted>>

\* The awaited cache.put takes effect in the store.
CflPutCommit(i) ==
    /\ reqs[i].pc = "cfl_put"
    /\ caches' = put(caches, IMAGE_CACHE, reqs[i].request.url, reqs[i].network)
    /\ inserted' = Append(inserted, reqs[i].request.url)
    /\ reqs' = [reqs EXCEPT ![i].pc = "cfl_trim"]
    /\ UNCHANGED <<phase, names, sweep, claimed, puts, trims>>

\* The awaited cache.put rejects: the catch branch returns the placeholder.
CflPutFail(i) ==
    /\ reqs[i].pc = "cfl_put"
    /\ reqs' = return(i, fallbackImg)
    /\ UNCHANGED <<caches, phase, names, sweep, claimed, puts, trims, inserted>>

\* A faulty variant of the step after the put: the response is returned and
\* no trim is started.
CflReturnWithoutTrim(i, maxItems) ==
    /\ reqs[i].pc = "cfl_trim"
    /\ reqs' = return(i, reqs[i].network)
    /\ UNCHANGED <<caches, phase, names, sweep, claimed, puts, trims, inserted>>

\* After the put: trimCache(cacheName, maxItems) is called and not awaited
\* (it runs up to its first await), and the response is returned.
CflSpawnTrim(i, maxItems) ==
    /\ reqs[i].pc = "cfl_trim"
    /\ trims' = [trims EXCEPT ![i].pc = "keys", ![i].maxItems = maxItems]
    /\ reqs' = return(i, reqs[i].network)
    /\ UNCHANGED <<caches, phase, names, sweep, claimed, puts, inserted>>

(* ------------------------------ trimCache ----------------------------- *)
\* A faulty variant of the count: keys.length - maxItems - 1.
deletionsOffByOne(keys, maxItems) ==
    IF Len(keys) <= maxItems + 1 THEN 0 ELSE Len(keys) - maxItems - 1

\* keys.length - maxItems, or 0 when the early return is taken.
deletionsFor(keys, maxItems) == IF Len(keys) <= maxItems THEN 0 ELSE Len(keys) - maxItems

\* keys = await cache.keys(); the early return; deletions.
TrimKeys(i) ==
    /\ trims[i].pc = "keys"
    /\ LET keys == keysOf(entriesOf(caches, IMAGE_CACHE))
           deletions == deletionsFor(keys, trims[i].maxItems)
       IN trims' = [trims EXCEPT ![i].pc = IF deletions = 0 THEN "done" ELSE "delete",
                                 ![i].keys = keys, ![i].deletions = deletions]
    /\ caches' = open(caches, IMAGE_CACHE)
    /\ UNCHANGED <<phase, names, sweep, claimed, reqs, puts, inserted>>

\* A faulty variant of the loop body: deletes from the newest end.
victimNewest(t) == t.keys[Len(t.keys) - t.i]

\* The key the loop body deletes at index i (0-based, as in the source).
victim(t) == t.keys[t.i + 1]

\* One iteration: await cache.delete(keys[i]); i++; the loop test.
TrimDelete(i) ==
    /\ trims[i].pc = "delete"
    /\ caches' = delete(caches, IMAGE_CACHE, victim(trims[i]))
    /\ trims' = [trims EXCEPT ![i].i = @ + 1,
                              ![i].pc = IF trims[i].i + 1 < trims[i].deletions THEN "delete" ELSE "done"]
    /\ UNCHANGED <<phase, names, sweep, claimed, reqs, puts, inserted>>

(* --------------------------- specifications --------------------------- *)
\* The steps of the image strategy and of its trims, the fetch listener
\* passing maxItems to cacheFirstWithLimit.
ImageStep(maxItems) ==
    \/ \E i \in Slots : CflMatch(i)
    \/ \E i \in Slots : \E r \in answers(reqs[i].request) : CflFetchOk(i, r)
    \/ \E i \in Slots : CflFetchFail(i)
    \/ \E i \in Slots : CflPutCommit(i)
    \/ \E i \in Slots : CflPutFail(i)
    \/ \E i \in Slots : CflSpawnTrim(i, maxItems)
    \/ \E i \in Slots : TrimKeys(i)
    \/ \E i \in Slots : TrimDelete(i)

\* The worker from its installation on: install, activate, then fetch events.
Init ==
    /\ caches \in {pick(ExistingStores, S, 1) : S \in SUBSET (1..Len(ExistingStores))}
    /\ phase = "parsed"
    /\ names = <<>>
    /\ sweep = {}
    /\ claimed = FALSE
    /\ reqs = <<>>
    /\ puts = <<>>
    /\ trims = <<>>
    /\ inserted = <<>>

Next ==
    \/ InstallEvent
    \/ InstallAddAllOk
    \/ InstallAddAllFail
    \/ ActivateEvent
    \/ \E n \in sweep : ActivateDelete(n)
    \/ ActivateClaim
    \/ \E q \in Requests : Len(reqs) < MaxReqs /\ FetchEvent(q)
    \/ \E i \in Slots : \E r \in answers(reqs[i].request) : NavFetchOk(i, r)
    \/ \E i \in Slots : NavFetchFail(i)
    \/ \E i \in Slots : SwrMatch(i)
    \/ \E i \in Slots : \E r \in answers(reqs[i].request) : SwrFetchOk(i, r)
    \/ \E i \in Slots : SwrFetchFail(i)
    \/ \E i \in Slots : \E r \in answers(reqs[i].request) : NfcFetchOk(i, r)
    \/ \E i \in Slots : NfcFetchFail(i)
    \/ \E i \in Slots : PutCommit(i)
    \/ \E i \in Slots : PutFail(i)
    \/ \E i \in Slots : CflMatch(i)
    \/ \E i \in Slots : \E r \in answers(reqs[i].request) : CflFetchOk(i, r)
    \/ \E i \in Slots : CflFetchFail(i)
    \/ \E i \in Slots : CflPutCommit(i)
    \/ \E i \in Slots : CflPutFail(i)
    \/ \E i \in Slots : CflSpawnTrim(i, MaxItems)
    \/ \E i \in Slots : TrimKeys(i)
    \/ \E i \in Slots : TrimDelete(i)

Spec == Init /\ [][Next]_vars

\* The active worker, restarted by the browser, serving third-party images
\* from an image store that holds at most MaxItems entries.
RECURSIVE Lists(_, _)
Lists(S, n) ==
    IF n = 0 THEN {<<>>}
    ELSE LET shorter == Lists(S, n - 1)
         IN shorter \cup {Append(l, x) : l \in shorter, x \in S}
Distinct(l) == \A a, b \in 1..Len(l) : a # b => l[a] # l[b]
storedImage(u) == [key |-> u, resp |-> OpaqueResponse]

InitImages ==
    /\ \E l \in {k \in Lists(ImageUrls, MaxItems) : Distinct(k)} :
          /\ caches = <<[name |-> IMAGE_CACHE, entries |-> [k \in 1..Len(l) |-> storedImage(l[k])]]>>
          /\ inserted = l
    /\ phase = "active"
    /\ names = <<>>
    /\ sweep = {}
    /\ claimed = TRUE
    /\ reqs = <<>>
    /\ puts = <<>>
    /\ trims = <<>>

NextImages ==
    \/ \E q \in Images : Len(reqs) < MaxImgReqs /\ FetchEvent(q)
    \/ ImageStep(MaxItems)

SpecImages == InitImages /\ [][NextImages]_vars

\* The same worker serving a short burst of image requests.
NextBurst ==
    \/ \E q \in Images : Len(reqs) < MaxBurstReqs /\ FetchEvent(q)
    \/ ImageStep(MaxItems)

SpecBurst == InitImages /\ [][NextBurst]_vars

\* The same worker when the page requests its images one after another: a
\* fetch event arrives only when every earlier strategy call and trim is over.
quiet ==
    /\ \A i \in Slots : reqs[i].pc = "done" /\ trims[i].pc \in {"none", "done"}

InitSequential ==
    /\ caches = <<>>
    /\ inserted = <<>>
    /\ phase = "active"
    /\ names = <<>>
    /\ sweep = {}
    /\ claimed = TRUE
    /\ reqs = <<>>
    /\ puts = <<>>
    /\ trims = <<>>

NextSequential ==
    \/ \E q \in Images : Len(reqs) < MaxSeqReqs /\ quiet /\ FetchEvent(q)
    \/ ImageStep(SeqMaxItems)

SpecSequential == InitSequential /\ [][NextSequential]_vars

\* The active worker receiving fetch events of every kind the listener
\* distinguishes.
InitRouter ==
    /\ caches = pick(ExistingStores, {4, 5, 6}, 1)
    /\ inserted = <<"https://cdn.example/a.jpg">>
    /\ phase = "active"
    /\ names = <<>>
    /\ sweep = {}
    /\ claimed = TRUE
    /\ reqs = <<>>
    /\ puts = <<>>
    /\ trims = <<>>

NextRouter ==
    \/ \E q \in RouterRequests : Len(reqs) < MaxRouterReqs /\ FetchEvent(q)
    \/ \E i \in Slots : \E r \in answers(reqs[i].request) : NavFetchOk(i, r)
    \/ \E i \in Slots : NavFetchFail(i)
    \/ \E i \in Slots : SwrMatch(i)
    \/ \E i \in Slots : \E r \in answers(reqs[i].request) : SwrFetchOk(i, r)
    \/ \E i \in Slots : SwrFetchFail(i)
    \/ \E i \in Slots : \E r \in answers(reqs[i].request) : NfcFetchOk(i, r)
    \/ \E i \in Slots : NfcFetchFail(i)
    \/ \E i \in Slots : PutCommit(i)
    \/ \E i \in Slots : PutFail(i)
    \/ ImageStep(MaxItems)

SpecRouter == InitRouter /\ [][NextRouter]_vars

\* The active worker serving same-origin assets, the event loop running
\* every put whose turn has come.
InitRefresh ==
    /\ caches \in {pick(ExistingStores, S, 1) : S \in {{}, {5}}}
    /\ inserted = <<>>
    /\ phase = "active"
    /\ names = <<>>
    /\ sweep = {}
    /\ claimed = TRUE
    /\ reqs = <<>>
    /\ puts = <<>>
    /\ trims = <<>>

NextRefresh ==
    \/ \E q \in SwrRequests : Len(reqs) < MaxSwrReqs /\ FetchEvent(q)
    \/ \E i \in Slots : SwrMatch(i)
    \/ \E i \in Slots : \E r \in answers(reqs[i].request) : SwrFetchOk(i, r)
    \/ \E i \in Slots : SwrFetchFail(i)
    \/ \E i \in Slots : PutCommit(i)
    \/ \E i \in Slots : PutFail(i)

SpecRefresh ==
    /\ InitRefresh
    /\ [][NextRefresh]_vars
    /\ \A i \in 1..MaxSwrReqs : WF_vars(i \in Slots /\ PutCommit(i))

(* ------------------------------- claims ------------------------------- *)
isSwr(i) == reqs[i].strategy = "staleWhileRevalidate"
isNav(i) == reqs[i].strategy = "handleHTMLNavigation"
urlOf(i) == reqs[i].request.url
runtimeEntry(cs, key) == matchIn(entriesOf(cs, RUNTIME_CACHE), key)
imageKeys == keysOf(entriesOf(caches, IMAGE_CACHE))

\* C1: every strategy call that has returned resolved to a Response: the
\* value handed to respondWith is never a non-Response (null).
C1_EveryStrategyResolvesToResponse ==
    \A i \in Slots : reqs[i].pc = "done" => IsResponse(reqs[i].resp)

\* C2: Stale-While-Revalidate with no entry in the store and a failed fetch
\* returns a response with status 504.
C2_SwrMissAndFailureGives504 ==
    \A i \in Slots :
        (isSwr(i) /\ reqs[i].pc = "done" /\ ~truthy(reqs[i].cached) /\ reqs[i].net = "fail")
            => (IsResponse(reqs[i].resp) /\ reqs[i].resp.status = 504)

\* Every trim that a committed put entails has been spawned and has run to
\* completion.
trimsSettled ==
    \A i \in Slots : trims[i].pc \in {"none", "done"} /\ reqs[i].pc # "cfl_trim"

\* C3: under any interleaving of image requests, once every spawned trim has
\* run to completion the image store holds at most maxItems entries.
C3_CountAtMostCapOnceTrimsDone ==
    trimsSettled => Len(imageKeys) <= MaxItems

\* C3 witness: three puts went in while trims were pending, a trim that saw
\* the store two over the cap has finished, and all trims are over.
C3_Witness ==
    /\ trimsSettled
    /\ Len(inserted) >= MaxItems + 2
    /\ \E i \in Slots : trims[i].pc = "done" /\ trims[i].deletions >= 2

\* The keys of the n most recent insertions, oldest first (a key inserted
\* again counts from its latest insertion).
RECURSIVE latest(_, _)
latest(hist, n) ==
    IF n = 0 \/ hist = <<>> THEN <<>>
    ELSE LET x == hist[Len(hist)]
             rest == SelectSeq(SubSeq(hist, 1, Len(hist) - 1), LAMBDA y : y # x)
         IN Append(latest(rest, n - 1), x)

\* C4: under any interleaving of image requests that inserted at least
\* maxItems entries, once every request and trim is over the store holds
\* exactly the maxItems most recently inserted entries.
C4_RetainsExactlyTheMostRecent ==
    (quiet /\ Len(latest(inserted, MaxItems)) = MaxItems)
        => imageKeys = latest(inserted, MaxItems)

\* C5: image requests handled one after another, from an empty store: after
\* more than maxItems successful fetches the store holds exactly the
\* maxItems most recently fetched URLs, in fetch order.
C5_SequentialKeepsLastFetched ==
    (quiet /\ Len(inserted) > SeqMaxItems)
        => /\ Len(imageKeys) = SeqMaxItems
           /\ imageKeys = SubSeq(inserted, Len(inserted) - SeqMaxItems + 1, Len(inserted))

\* C5 witness: cap 2, three fetches stored one after another, the first one
\* evicted by the third request's trim.
C5_Witness ==
    /\ quiet
    /\ Len(inserted) = SeqMaxItems + 1
    /\ Len(imageKeys) = SeqMaxItems
    /\ \E i \in Slots : trims[i].pc = "done" /\ trims[i].deletions = 1
    /\ inserted[1] \notin KeySet(entriesOf(caches, IMAGE_CACHE))

\* C6: a navigation whose fetch succeeded returns the network response, has
\* issued the put, and once that put has completed the runtime store holds
\* an entry for the request.
C6_NavigationSuccessReturnsNetworkAndCaches ==
    \A i \in Slots :
        (isNav(i) /\ reqs[i].net = "ok")
            => /\ reqs[i].pc = "done"
               /\ reqs[i].resp = reqs[i].network
               /\ puts[i].st # "none"
               /\ puts[i].st = "done" => truthy(runtimeEntry(caches, urlOf(i)))

\* C6 witness: a navigation answered from the network whose put has
\* completed.
C6_Witness ==
    \E i \in Slots :
        /\ isNav(i) /\ reqs[i].net = "ok" /\ puts[i].st = "done"
        /\ reqs[i].resp = OkResponse
        /\ runtimeEntry(caches, urlOf(i)) = OkResponse

\* A navigation's fetch rejects in this step.
navFails(i) == isNav(i) /\ reqs[i].pc = "nav_fetch" /\ reqs'[i].pc = "done" /\ reqs'[i].net = "fail"

\* C7 as stated: on network failure the navigation returns the runtime
\* store's entry if it holds one and the offline document otherwise,
\* whatever the other stores hold.
C7_FallbackLooksOnlyInRuntimeStore ==
    [][\A i \in Slots :
          navFails(i) =>
              reqs'[i].resp = (IF truthy(runtimeEntry(caches, urlOf(i)))
                               THEN runtimeEntry(caches, urlOf(i))
                               ELSE OFFLINE_RESPONSE)]_vars

holds(c, key) == key \in KeySet(c.entries)

\* C7 amended: on network failure the navigation returns the entry of the
\* first store, in creation order, that holds one for the request (whichever
\* store that is), and the offline document (200, text/html, OFFLINE_HTML)
\* exactly when no store holds one.
C7_FallbackLooksInEveryStore ==
    [][\A i \in Slots :
          navFails(i) =>
              \/ /\ \A k \in 1..Len(caches) : ~holds(caches[k], urlOf(i))
                 /\ reqs'[i].resp = OFFLINE_RESPONSE
                 /\ reqs'[i].resp.status = 200
                 /\ reqs'[i].resp.ctype = "text/html; charset=utf-8"
                 /\ reqs'[i].resp.body = "OFFLINE_HTML"
              \/ \E k \in 1..Len(caches) :
                    /\ holds(caches[k], urlOf(i))
                    /\ \A j \in 1..(k - 1) : ~holds(caches[j], urlOf(i))
                    /\ reqs'[i].resp = matchIn(caches[k].entries, urlOf(i))]_vars

\* C7 witness: a navigation whose fetch failed was answered with an entry
\* although the runtime store holds none for it.
C7_Witness ==
    \E i \in Slots :
        /\ isNav(i) /\ reqs[i].net = "fail" /\ reqs[i].pc = "done"
        /\ truthy(reqs[i].cached) /\ reqs[i].resp = reqs[i].cached
        /\ ~truthy(runtimeEntry(caches, urlOf(i)))

\* C8: Stale-While-Revalidate with an entry in the store: the lookup step
\* itself delivers that entry, with the fetch still pending, and whatever the
\* fetch does later the delivered response stays that entry.
C8_SwrHitReturnsCachedWithoutWaiting ==
    [][\A i \in Slots :
          isSwr(i) =>
              /\ (reqs[i].pc = "swr_match" /\ reqs'[i].pc # "swr_match"
                    /\ truthy(runtimeEntry(caches, urlOf(i))))
                 => /\ reqs'[i].pc = "done"
                    /\ reqs'[i].resp = runtimeEntry(caches, urlOf(i))
                    /\ reqs'[i].net = "pending"
              /\ (reqs[i].pc = "done" /\ truthy(reqs[i].cached))
                 => /\ reqs'[i].pc = "done"
                    /\ reqs'[i].resp = reqs[i].resp
                    /\ reqs[i].resp = reqs[i].cached]_vars

\* C8 witness: the cached entry was delivered and the fetch failed afterwards.
C8_Witness ==
    \E i \in Slots :
        /\ isSwr(i) /\ truthy(reqs[i].cached) /\ reqs[i].pc = "done"
        /\ reqs[i].resp = reqs[i].cached
        /\ reqs[i].net = "fail"

\* A store name carries the current version tag.
taggedCurrent(name) == \E k \in 1..Len(name) : name[k] = VERSION
sweepDone == (phase = "activating" /\ sweep = {}) \/ phase = "active"

\* C9: once the activation sweep has completed, no store of this system
\* ('quotesn-...') tagged with another version than the current one is listed.
C9_NoStaleGenerationAfterActivation ==
    sweepDone =>
        \A n \in Names(caches) : startsWithQuotesn(n) => taggedCurrent(n)

\* C9 witness: the sweep found stores of two other generations beside a
\* foreign store, and all its deletions have completed.
C9_Witness ==
    /\ phase = "activating" /\ sweep = {}
    /\ {LEGACY_CACHE, OLD_RUNTIME_CACHE, FOREIGN_CACHE} \subseteq {names[k] : k \in 1..Len(names)}
    /\ ~has(caches, LEGACY_CACHE) /\ ~has(caches, OLD_RUNTIME_CACHE)

\* C10: activation leaves every store tagged with the current version
\* (precache, runtime, runtime image) and every store outside the namespace
\* unchanged.
C10_ActivationKeepsCurrentAndForeignStores ==
    [][phase = "activating" =>
          \A k \in 1..Len(caches) :
              (taggedCurrent(caches[k].name) \/ ~startsWithQuotesn(caches[k].name))
                  => \E j \in 1..Len(caches') : caches'[j] = caches[k]]_vars

\* The classification of a request in the words of the router's contract.
isNavigation(q) == q.mode = "navigate" \/ "text/html" \in q.accept
isSameOrigin(q) == q.origin = SELF_ORIGIN
isImage(q) == q.destination = "image" \/ q.ext \in {"png", "jpg", "jpeg", "webp", "avif", "gif"}
\* The suspension points of each strategy's own function.
pcsOf(strategy) ==
    CASE strategy = "handleHTMLNavigation" -> {"nav_fetch", "done"}
      [] strategy = "staleWhileRevalidate" -> {"swr_match", "swr_await", "done"}
      [] strategy = "cacheFirstWithLimit" -> {"cfl_match", "cfl_fetch", "cfl_put", "cfl_trim", "done"}
      [] strategy = "networkFallingBackToCache" -> {"nfc_fetch", "done"}
      [] OTHER -> {"ignored"}

\* C11: a non-GET request is handed to no strategy, and nothing is ever
\* looked up, fetched, put or trimmed for it; a GET request runs exactly the
\* strategy of the first class it falls in, in the order navigation, same
\* origin, image, default (so a same-origin image runs Stale-While-Revalidate
\* and a cross-origin navigation runs Network-First).
C11_RouterFirstMatchWins ==
    \A i \in Slots :
        LET q == reqs[i].request
            s == reqs[i].strategy
        IN /\ reqs[i].pc \in pcsOf(s)
           /\ q.method # "GET" =>
                 /\ s = "none"
                 /\ reqs[i] = NewReq(q, "ignored")
                 /\ puts[i] = NoPut /\ trims[i] = NoTrim
           /\ q.method = "GET" =>
                 /\ isNavigation(q) => s = "handleHTMLNavigation"
                 /\ (~isNavigation(q) /\ isSameOrigin(q)) => s = "staleWhileRevalidate"
                 /\ (~isNavigation(q) /\ ~isSameOrigin(q) /\ isImage(q)) => s = "cacheFirstWithLimit"
                 /\ (~isNavigation(q) /\ ~isSameOrigin(q) /\ ~isImage(q))
                       => s = "networkFallingBackToCache"
                 /\ s = "cacheFirstWithLimit" => puts[i] = NoPut
                 /\ s # "cacheFirstWithLimit" => trims[i] = NoTrim

\* C11 witness: a cross-origin navigation that ran Network-First to its end.
C11_Witness ==
    \E i \in Slots :
        /\ reqs[i].request.method = "GET" /\ isNavigation(reqs[i].request)
        /\ ~isSameOrigin(reqs[i].request) /\ isImage(reqs[i].request)
        /\ reqs[i].strategy = "handleHTMLNavigation" /\ reqs[i].pc = "done"
        /\ puts[i].st = "done"

\* C12: in every strategy, a fetch that fulfilled with a response that is
\* neither ok nor opaque never leads to a cache write for the request taking
\* effect, and the strategy returns that response as it is.
C12_UnusableResponseIsNeverCached ==
    \A i \in Slots :
        (reqs[i].net = "ok" /\ ~usable(reqs[i].network))
            => /\ puts[i].st # "done"
               /\ reqs[i].pc = "done" => reqs[i].resp = reqs[i].network

\* C13: a detached cache write that fails is caught inside the detached task,
\* never surfacing as an unhandled error, and the response chosen for the
\* request that started it stays what it was.
C13_DetachedFailuresAreSwallowed ==
    \A i \in Slots :
        puts[i].st = "failed"
            => /\ ~unhandled(i)
               /\ reqs[i].pc = "done"
               /\ reqs[i].resp = (IF isSwr(i) /\ truthy(reqs[i].cached)
                                  THEN reqs[i].cached ELSE reqs[i].network)

isCfl(i) == reqs[i].strategy = "cacheFirstWithLimit"

\* C14: Cache-First-With-Cap that missed and whose fetch fulfilled returns
\* the fetched response, whether the store write succeeded, failed or was
\* skipped.
C14_CflMissReturnsFetchedResponse ==
    \A i \in Slots :
        (isCfl(i) /\ reqs[i].net = "ok" /\ reqs[i].pc = "done")
            => reqs[i].resp = reqs[i].network

\* C15: the install step ends in `installed` whether the warm-up of the core
\* routes succeeded or failed: from `installing` the worker only ever goes to
\* `installed`, never to a failed installation.
C15_InstallToleratesWarmUpFailure ==
    [][phase = "installing" => phase' \in {"installing", "installed"}]_vars

\* C15 witness: the worker is installed although the warm-up failed (the
\* precache store was opened and holds none of the core routes it lacked).
C15_Witness ==
    /\ phase = "installed"
    /\ has(caches, PRECACHE)
    /\ "/index.html" \notin KeySet(entriesOf(caches, PRECACHE))

imageEntry(key) == matchIn(entriesOf(caches, IMAGE_CACHE), key)

\* C16: Cache-First-With-Cap on a hit: the lookup step returns the stored
\* entry and leaves the store's entries and their order as they were; no
\* fetch is ever issued and no trim ever spawned for that request.
C16_CflHitTouchesNothing ==
    [][\A i \in Slots :
          isCfl(i) =>
              /\ (reqs[i].pc = "cfl_match" /\ reqs'[i].pc # "cfl_match" /\ truthy(imageEntry(urlOf(i))))
                 => /\ reqs'[i].pc = "done"
                    /\ reqs'[i].resp = imageEntry(urlOf(i))
                    /\ reqs'[i].cached = imageEntry(urlOf(i))
                    /\ entriesOf(caches', IMAGE_CACHE) = entriesOf(caches, IMAGE_CACHE)
              /\ truthy(reqs'[i].cached)
                 => /\ reqs'[i].pc = "done"
                    /\ reqs'[i].resp = reqs'[i].cached
                    /\ reqs'[i].net = "none"
                    /\ reqs'[i].network = undefined
                    /\ trims'[i] = NoTrim]_vars

\* C16 witness: an entry that was served from the store has since been
\* evicted as the oldest one by the trim of a later request.
C16_Witness ==
    \E i \in Slots :
        /\ isCfl(i) /\ truthy(reqs[i].cached) /\ reqs[i].resp = reqs[i].cached
        /\ urlOf(i) \notin KeySet(entriesOf(caches, IMAGE_CACHE))
        /\ \E j \in Slots : j > i /\ trims[j].pc = "done" /\ trims[j].deletions = 1
                              /\ trims[j].keys[1] = urlOf(i)

imageEntries(cs) == entriesOf(cs, IMAGE_CACHE)
lastOf(keys, n) == SubSeq(keys, Len(keys) - n + 1, Len(keys))

\* C17: a trim takes its snapshot of the keys without changing the store and
\* is over at once when the count is at most maxItems; otherwise it makes
\* exactly (snapshot count - maxItems) delete attempts and is then over,
\* whatever else shrinks the store meanwhile; an attempt on a key that is no
\* longer there changes nothing; and a trim whose attempts all found the
\* store as its own earlier attempts left it ends with exactly the last
\* maxItems keys of the snapshot.
C17_TrimIsBoundedAndExact ==
    [][\A i \in Slots :
          LET t == trims[i]
              u == trims'[i]
              keys == keysOf(imageEntries(caches))
          IN /\ (t.pc = "keys" /\ u.pc # "keys")
                => /\ u.keys = keys
                   /\ imageEntries(caches') = imageEntries(caches)
                   /\ Len(keys) <= t.maxItems => (u.pc = "done" /\ u.deletions = 0)
                   /\ Len(keys) > t.maxItems
                        => (u.pc = "delete" /\ u.deletions = Len(keys) - t.maxItems /\ u.i = 0)
             /\ (t.pc = "delete" /\ u # t)
                => /\ u.i = t.i + 1
                   /\ u.i <= t.deletions
                   /\ u.pc = (IF u.i = t.deletions THEN "done" ELSE "delete")
                   /\ t.keys[t.i + 1] \notin KeySet(imageEntries(caches))
                        => imageEntries(caches') = imageEntries(caches)
                   /\ keys = SubSeq(t.keys, t.i + 1, Len(t.keys))
                        => /\ keysOf(imageEntries(caches')) = SubSeq(t.keys, t.i + 2, Len(t.keys))
                           /\ u.pc = "done"
                                => keysOf(imageEntries(caches')) = lastOf(t.keys, t.maxItems)
             /\ t.pc = "done" => u = t
             /\ u.pc \in {"none", "keys", "delete", "done"}]_vars

\* C17 witness: two trims that took the same snapshot, two over the cap, have
\* both made their two attempts on the same two keys (so two of the four
\* attempts found the key gone), and the store holds the last maxItems keys.
C17_Witness ==
    \E i, j \in Slots :
        /\ i # j
        /\ trims[i].pc = "done" /\ trims[j].pc = "done"
        /\ trims[i].keys = trims[j].keys
        /\ trims[i].deletions = 2 /\ trims[i].i = 2 /\ trims[j].i = 2
        /\ Distinct(inserted)
        /\ imageKeys = lastOf(trims[i].keys, MaxItems)

\* The stores the activate handler enumerated and selected for deletion.
foundStale == {names[k] : k \in {j \in 1..Len(names) : isStale(names[j])}}

\* C18: clients are claimed only by the activate handler and only once every
\* deletion of its sweep has completed: in the step that claims them, no
\* deletion is pending and no store that the sweep found stale exists.
C18_ClaimOnlyAfterSweepCompleted ==
    [][(~claimed /\ claimed')
          => /\ phase = "activating"
             /\ sweep = {}
             /\ \A n \in foundStale : ~has(caches, n) /\ ~has(caches', n)]_vars

\* C18 witness: the sweep enumerated all six stores, found three of them
\* stale and has deleted them; clients are not yet claimed.
C18_Witness ==
    /\ phase = "activating" /\ ~claimed /\ sweep = {}
    /\ Len(names) = Len(ExistingStores)
    /\ Cardinality(foundStale) = 3
    /\ \A n \in foundStale : ~has(caches, n)

swrFetched(i) == i \in Slots /\ isSwr(i) /\ reqs[i].net = "ok" /\ usable(reqs[i].network)
refreshStored(i) == i \in Slots /\ runtimeEntry(caches, urlOf(i)) = reqs[i].network
writeRejected(i) == i \in Slots /\ puts[i].st = "failed"
swrFetchIssued ==
    \A i \in Slots : (isSwr(i) /\ reqs[i].pc # "swr_match") => reqs[i].net # "none"

trimsRunning == {i \in Slots : trims[i].pc \in {"keys", "delete"}}
trimsDue == {i \in Slots : reqs[i].pc = "cfl_trim"}

\* C20 as stated: from a store of at most maxItems entries, the image store
\* never holds more than maxItems entries plus the number of trims started
\* and not yet over.
C20_OvershootWithinRunningTrims ==
    Len(imageKeys) <= MaxItems + Cardinality(trimsRunning)

\* C20 amended: from a store of at most maxItems entries, the image store
\* never holds more than maxItems entries plus the number of requests whose
\* write has taken effect and whose trim is not yet over, be it started or
\* still to be started.
C20_OvershootWithinUnfinishedTrims ==
    Len(imageKeys) <= MaxItems + Cardinality(trimsRunning \cup trimsDue)

\* C20 witness: the store is two over the cap, one request's trim running
\* and another request's put stored with its trim still to be started.
C20_Witness ==
    /\ Len(imageKeys) = MaxItems + 2
    /\ Cardinality(trimsRunning) = 1
    /\ Cardinality(trimsDue) = 1
====
